---- MODULE Spec2Model ----
(***************************************************************************)
(* Device capability detection and recommendation engine of the            *)
(* virtual-studio storefront: hooks/useDeviceCapabilities.ts together with *)
(* the device tables of lib/constants.ts.                                  *)
(*                                                                         *)
(* The hook keeps one React state value, `capabilities`.  A detection pass *)
(* (detectCapabilities) reads the platform synchronously, starts the       *)
(* camera probe and the XR probe, awaits both and replaces the state.      *)
(* Every `await` of the source is one step of the model, so passes that    *)
(* overlap interleave at exactly the points where the event loop can       *)
(* interleave them.  Strings are TLA+ strings; substring containment and   *)
(* the regular expressions of the source are computed character by         *)
(* character.                                                              *)
(***************************************************************************)
EXTENDS Integers, Sequences, FiniteSets, TLC

\* Number of detection passes (mount, StrictMode re-mount, refresh()) that a
\* behaviour may start.
MaxPasses == 2

\* Number of calls of requestCameraPermission that a behaviour may make.
MaxRequests == 1

-----------------------------------------------------------------------------
(* String primitives of the JavaScript runtime                             *)

\* The JavaScript value `undefined` where a string is expected.
Undefined == "\\undefined"

\* String(v): the coercion RegExp.prototype.test applies to its argument.
StringOf(v) == IF v = Undefined THEN "undefined" ELSE v

UpperAlphabet == "ABCDEFGHIJKLMNOPQRSTUVWXYZ"
LowerAlphabet == "abcdefghijklmnopqrstuvwxyz"

toLowerCaseChar(c) ==
    IF \E i \in 1..26 : SubSeq(UpperAlphabet, i, i) = c
    THEN LET i == CHOOSE j \in 1..26 : SubSeq(UpperAlphabet, j, j) = c
         IN  SubSeq(LowerAlphabet, i, i)
    ELSE c

\* String.prototype.toUpperCase on one character.
toUpperCaseChar(c) ==
    IF \E i \in 1..26 : SubSeq(LowerAlphabet, i, i) = c
    THEN LET i == CHOOSE j \in 1..26 : SubSeq(LowerAlphabet, j, j) = c
         IN  SubSeq(UpperAlphabet, i, i)
    ELSE c

RECURSIVE toLowerCase(_)
toLowerCase(s) ==
    IF Len(s) = 0 THEN ""
    ELSE toLowerCaseChar(SubSeq(s, 1, 1)) \o toLowerCase(SubSeq(s, 2, Len(s)))

\* s.startsWith(p, i) with a 1-based position.
MatchesAt(s, p, i) ==
    /\ i + Len(p) - 1 <= Len(s)
    /\ SubSeq(s, i, i + Len(p) - 1) = p

\* String.prototype.includes for a non-empty pattern: case-sensitive.
includes(s, p) == \E i \in 1..Len(s) : MatchesAt(s, p, i)

\* /a1|a2|.../i .test(v): alts are the alternatives, written in lower case.
TestI(alts, v) ==
    LET t == toLowerCase(StringOf(v))
    IN  \E a \in alts : includes(t, a)

\* /a(?!.*b)/i .test(v): an occurrence of a with no b anywhere after it.
TestNotFollowedI(a, b, v) ==
    LET t == toLowerCase(StringOf(v))
    IN  \E i \in 1..Len(t) :
            /\ MatchesAt(t, a, i)
            /\ ~ includes(SubSeq(t, i + Len(a), Len(t)), b)

-----------------------------------------------------------------------------
(* lib/constants.ts: device tables                                          *)

\* Object.entries order is the insertion order of the literal.
XR_DEVICE_SIGNATURES ==
    << [device |-> "meta-quest-3",     patterns |-> <<"Quest 3", "Meta Quest 3">>],
       [device |-> "meta-quest-3s",    patterns |-> <<"Quest 3S", "Meta Quest 3S">>],
       [device |-> "meta-quest-pro",   patterns |-> <<"Quest Pro", "Meta Quest Pro">>],
       [device |-> "meta-quest-2",     patterns |-> <<"Quest 2", "Meta Quest 2", "Oculus Quest 2">>],
       [device |-> "rokid-station-2",  patterns |-> <<"Rokid Station", "Rokid Station 2">>],
       [device |-> "rokid-air",        patterns |-> <<"Rokid Air">>],
       [device |-> "rayneo-air-3s",    patterns |-> <<"RayNeo Air 3S", "RayNeo X2">>],
       [device |-> "rayneo-air-2",     patterns |-> <<"RayNeo Air 2">>],
       [device |-> "apple-vision-pro", patterns |-> <<"Apple Vision", "Vision Pro">>],
       [device |-> "pico-4",           patterns |-> <<"Pico 4", "PICO 4">>] >>

Profile(n, c, pass, hand, cam, scan, mode) ==
    [name |-> n, category |-> c, hasPassthrough |-> pass, hasHandTracking |-> hand,
     hasCamera |-> cam, supportsRoomScan |-> scan, recommendedMode |-> mode]

KNOWN_DEVICE_PROFILES ==
    [d \in {"meta-quest-3", "meta-quest-3s", "meta-quest-pro", "meta-quest-2",
            "rokid-station-2", "rokid-air", "rayneo-air-3s", "rayneo-air-2",
            "apple-vision-pro", "pico-4", "unknown"} |->
        CASE d = "meta-quest-3"     -> Profile("Meta Quest 3",     "vr-headset", TRUE, TRUE,  TRUE,  TRUE,  "ar")
          [] d = "meta-quest-3s"    -> Profile("Meta Quest 3S",    "vr-headset", TRUE, TRUE,  TRUE,  TRUE,  "ar")
          [] d = "meta-quest-pro"   -> Profile("Meta Quest Pro",   "vr-headset", TRUE, TRUE,  TRUE,  TRUE,  "ar")
          [] d = "meta-quest-2"     -> Profile("Meta Quest 2",     "vr-headset", TRUE, TRUE,  TRUE,  FALSE, "vr")
          [] d = "rokid-station-2"  -> Profile("Rokid Station 2",  "ar-glasses", TRUE, FALSE, FALSE, FALSE, "ar")
          [] d = "rokid-air"        -> Profile("Rokid Air",        "ar-glasses", TRUE, FALSE, FALSE, FALSE, "ar")
          [] d = "rayneo-air-3s"    -> Profile("RayNeo Air 3S",    "ar-glasses", TRUE, FALSE, TRUE,  FALSE, "ar")
          [] d = "rayneo-air-2"     -> Profile("RayNeo Air 2",     "ar-glasses", TRUE, FALSE, FALSE, FALSE, "ar")
          [] d = "apple-vision-pro" -> Profile("Apple Vision Pro", "vr-headset", TRUE, TRUE,  TRUE,  TRUE,  "ar")
          [] d = "pico-4"           -> Profile("Pico 4",           "vr-headset", TRUE, TRUE,  TRUE,  FALSE, "vr")
          [] d = "unknown"          -> Profile("Unknown Device",   "unknown",    FALSE, FALSE, FALSE, FALSE, "null")]

\* MOBILE_DEVICE_PATTERNS.mobile:
\*   /Mobile|Android|webOS|iPhone|iPad|iPod|BlackBerry|IEMobile|Opera Mini/i
MOBILE_DEVICE_PATTERNS_mobile(v) ==
    TestI({"mobile", "android", "webos", "iphone", "ipad", "ipod",
           "blackberry", "iemobile", "opera mini"}, v)

\* MOBILE_DEVICE_PATTERNS.tablet: /iPad|Android(?!.*Mobile)|Tablet/i
MOBILE_DEVICE_PATTERNS_tablet(v) ==
    \/ TestI({"ipad", "tablet"}, v)
    \/ TestNotFollowedI("android", "mobile", v)

\* BROWSER_PATTERNS
BROWSER_PATTERNS_chrome(v)  == TestNotFollowedI("chrome", "edge", v)
BROWSER_PATTERNS_safari(v)  == TestNotFollowedI("safari", "chrome", v)
BROWSER_PATTERNS_firefox(v) == TestI({"firefox"}, v)
BROWSER_PATTERNS_edge(v)    == TestI({"edge", "edg"}, v)
BROWSER_PATTERNS_opera(v)   == TestI({"opera", "opr"}, v)
BROWSER_PATTERNS_samsung(v) == TestI({"samsungbrowser"}, v)

\* The RegExp objects of MOBILE_DEVICE_PATTERNS and BROWSER_PATTERNS that the
\* platform detection tests.  They are module constants: every call tests
\* the same objects.
PatternKeys ==
    {"mobile", "tablet", "chrome", "safari", "firefox", "edge", "opera", "samsung"}

\* Variant of PatternFlags in which the patterns are global.
PatternFlags_Global(key) == "gi"

\* The flags after the closing slash of each pattern.
PatternFlags(key) == "i"

Alt(word, notFollowedBy) == [word |-> word, notFollowedBy |-> notFollowedBy]

\* The alternatives of each pattern in source order, in lower case;
\* notFollowedBy is the argument of a (?!.*x) lookahead, "" without one.
PatternAlternatives(key) ==
    CASE key = "mobile" ->
            << Alt("mobile", ""), Alt("android", ""), Alt("webos", ""),
               Alt("iphone", ""), Alt("ipad", ""), Alt("ipod", ""),
               Alt("blackberry", ""), Alt("iemobile", ""), Alt("opera mini", "") >>
      [] key = "tablet"  -> << Alt("ipad", ""), Alt("android", "mobile"), Alt("tablet", "") >>
      [] key = "chrome"  -> << Alt("chrome", "edge") >>
      [] key = "safari"  -> << Alt("safari", "chrome") >>
      [] key = "firefox" -> << Alt("firefox", "") >>
      [] key = "edge"    -> << Alt("edge", ""), Alt("edg", "") >>
      [] key = "opera"   -> << Alt("opera", ""), Alt("opr", "") >>
      [] key = "samsung" -> << Alt("samsungbrowser", "") >>

AltMatchesAt(alt, t, i) ==
    /\ MatchesAt(t, alt.word, i)
    /\ \/ alt.notFollowedBy = ""
       \/ ~ includes(SubSeq(t, i + Len(alt.word), Len(t)), alt.notFollowedBy)

\* RegExp.prototype.test on the object `key` whose lastIndex is li
\* (RegExpBuiltinExec): a pattern without the g flag searches from 0 and
\* leaves lastIndex alone; a global one searches from lastIndex and sets it
\* to the end of the match, or to 0 when nothing matches.
RegExpTest(key, v, li) ==
    LET t      == toLowerCase(StringOf(v))
        alts   == PatternAlternatives(key)
        global == includes(PatternFlags(key), "g")
        from   == IF global THEN li ELSE 0
        hits   == { i \in (from + 1)..Len(t) :
                      \E k \in 1..Len(alts) : AltMatchesAt(alts[k], t, i) }
    IN  IF hits = {}
        THEN [found |-> FALSE, lastIndex |-> IF global THEN 0 ELSE li]
        ELSE LET i == CHOOSE h \in hits : \A g \in hits : h <= g
                 k == CHOOSE a \in 1..Len(alts) :
                        /\ AltMatchesAt(alts[a], t, i)
                        /\ \A b \in 1..(a - 1) : ~ AltMatchesAt(alts[b], t, i)
             IN  [found |-> TRUE,
                  lastIndex |-> IF global THEN i + Len(alts[k].word) - 1 ELSE li]

-----------------------------------------------------------------------------
(* hooks/useDeviceCapabilities.ts: detection utilities                      *)

\* Variant of detectOS that tests the desktop systems before the handheld
\* ones.
detectOS_DesktopFirst(userAgent) ==
    IF TestI({"windows"}, userAgent) THEN "windows"
    ELSE IF TestI({"mac os x"}, userAgent) THEN "macos"
    ELSE IF TestI({"linux"}, userAgent) THEN "linux"
    ELSE IF TestI({"iphone", "ipad", "ipod"}, userAgent) THEN "ios"
    ELSE IF TestI({"android"}, userAgent) THEN "android"
    ELSE "unknown"

detectOS(userAgent) ==
    IF TestI({"iphone", "ipad", "ipod"}, userAgent) THEN "ios"
    ELSE IF TestI({"android"}, userAgent) THEN "android"
    ELSE IF TestI({"windows"}, userAgent) THEN "windows"
    ELSE IF TestI({"mac os x"}, userAgent) THEN "macos"
    ELSE IF TestI({"linux"}, userAgent) THEN "linux"
    ELSE "unknown"

\* Variant of detectBrowser that tests chrome and safari before the browsers
\* built on them.
detectBrowser_ChromeFirst(userAgent) ==
    IF BROWSER_PATTERNS_chrome(userAgent) THEN "chrome"
    ELSE IF BROWSER_PATTERNS_safari(userAgent) THEN "safari"
    ELSE IF BROWSER_PATTERNS_edge(userAgent) THEN "edge"
    ELSE IF BROWSER_PATTERNS_samsung(userAgent) THEN "samsung"
    ELSE IF BROWSER_PATTERNS_opera(userAgent) THEN "opera"
    ELSE IF BROWSER_PATTERNS_firefox(userAgent) THEN "firefox"
    ELSE "unknown"

detectBrowser(userAgent) ==
    IF BROWSER_PATTERNS_edge(userAgent) THEN "edge"
    ELSE IF BROWSER_PATTERNS_samsung(userAgent) THEN "samsung"
    ELSE IF BROWSER_PATTERNS_opera(userAgent) THEN "opera"
    ELSE IF BROWSER_PATTERNS_chrome(userAgent) THEN "chrome"
    ELSE IF BROWSER_PATTERNS_safari(userAgent) THEN "safari"
    ELSE IF BROWSER_PATTERNS_firefox(userAgent) THEN "firefox"
    ELSE "unknown"

\* The inner loop of detectKnownXRDevice: does patterns[j..] hold a pattern
\* that userAgent includes?
RECURSIVE AnyPatternFrom(_, _, _)
AnyPatternFrom(userAgent, patterns, j) ==
    IF j > Len(patterns) THEN FALSE
    ELSE IF includes(userAgent, patterns[j]) THEN TRUE
    ELSE AnyPatternFrom(userAgent, patterns, j + 1)

\* The outer loop of detectKnownXRDevice from table entry i on.
RECURSIVE DetectFrom(_, _)
DetectFrom(userAgent, i) ==
    IF i > Len(XR_DEVICE_SIGNATURES) THEN "unknown"
    ELSE IF AnyPatternFrom(userAgent, XR_DEVICE_SIGNATURES[i].patterns, 1)
         THEN XR_DEVICE_SIGNATURES[i].device
         ELSE DetectFrom(userAgent, i + 1)

\* userAgent.includes(...) on undefined is a TypeError.
detectKnownXRDeviceThrows(userAgent) == userAgent = Undefined

\* Variant of detectKnownXRDevice that lets the last matching table entry
\* win.
RECURSIVE DetectBackFrom(_, _)
DetectBackFrom(userAgent, i) ==
    IF i < 1 THEN "unknown"
    ELSE IF AnyPatternFrom(userAgent, XR_DEVICE_SIGNATURES[i].patterns, 1)
         THEN XR_DEVICE_SIGNATURES[i].device
         ELSE DetectBackFrom(userAgent, i - 1)

detectKnownXRDevice_LastEntry(userAgent) ==
    DetectBackFrom(userAgent, Len(XR_DEVICE_SIGNATURES))

detectKnownXRDevice(userAgent) == DetectFrom(userAgent, 1)

\* Variant of determineDeviceCategory that tests the mobile flag first.
determineDeviceCategory_MobileFirst(knownDevice, platform) ==
    IF knownDevice # "unknown" THEN KNOWN_DEVICE_PROFILES[knownDevice].category
    ELSE IF platform.isMobile THEN "mobile"
    ELSE IF platform.isTablet THEN "tablet"
    ELSE "desktop"

\* Variant of determineDeviceCategory that gives up when the OS is unknown.
determineDeviceCategory_UnknownOS(knownDevice, platform) ==
    IF knownDevice # "unknown" THEN KNOWN_DEVICE_PROFILES[knownDevice].category
    ELSE IF platform.isTablet THEN "tablet"
    ELSE IF platform.isMobile THEN "mobile"
    ELSE IF platform.os = "unknown" THEN "unknown"
    ELSE "desktop"

\* Variant of determineDeviceCategory that reads the category of every
\* device, the unknown one included, from the catalog.
determineDeviceCategory_CatalogOnly(knownDevice, platform) ==
    KNOWN_DEVICE_PROFILES[knownDevice].category

determineDeviceCategory(knownDevice, platform) ==
    IF knownDevice # "unknown" THEN KNOWN_DEVICE_PROFILES[knownDevice].category
    ELSE IF platform.isTablet THEN "tablet"
    ELSE IF platform.isMobile THEN "mobile"
    ELSE "desktop"

DefaultPlatform ==
    [os |-> "unknown", browser |-> "unknown", isMobile |-> FALSE,
     isTablet |-> FALSE, isTouchDevice |-> FALSE, userAgent |-> ""]

\* `'ontouchstart' in window` is a ReferenceError when navigator is declared
\* and window is not.
getPlatformInfoThrows(rt) == rt.navigator /\ ~ rt.window

getPlatformInfo(rt) ==
    IF ~ rt.navigator THEN DefaultPlatform
    ELSE [os            |-> detectOS(rt.userAgent),
          browser       |-> detectBrowser(rt.userAgent),
          isMobile      |-> MOBILE_DEVICE_PATTERNS_mobile(rt.userAgent),
          isTablet      |-> MOBILE_DEVICE_PATTERNS_tablet(rt.userAgent),
          isTouchDevice |-> rt.touch,
          userAgent     |-> rt.userAgent]

DefaultCamera ==
    [hasCamera |-> FALSE, hasFrontCamera |-> FALSE, hasRearCamera |-> FALSE,
     supportsMediaDevices |-> FALSE, supportsGetUserMedia |-> FALSE,
     cameraPermissionState |-> "unknown"]

DefaultXR ==
    [supportsWebXR |-> FALSE, supportsImmersiveAR |-> FALSE,
     supportsImmersiveVR |-> FALSE, supportsInlineXR |-> FALSE,
     supportsHandTracking |-> FALSE, supportsHitTest |-> FALSE,
     supportsDomOverlay |-> FALSE]

\* useState initial value.
InitialCapabilities ==
    [deviceCategory |-> "unknown", knownDevice |-> "unknown",
     platform |-> DefaultPlatform, camera |-> DefaultCamera, xr |-> DefaultXR,
     isLoading |-> TRUE, lastUpdated |-> 0]

-----------------------------------------------------------------------------
(* The runtime the hook runs in (navigator, window and their answers)       *)

\* A session-support query or permission query settles with one of these.
Rejects == "reject"

Device(k, l) == [kind |-> k, label |-> l]

\* Answers of navigator.mediaDevices.enumerateDevices().
EnumerateRejects == [ok |-> FALSE, devices |-> << >>]
NoDevices        == [ok |-> TRUE,  devices |-> << Device("audioinput", "") >>]
UnlabelledCamera == [ok |-> TRUE,  devices |-> << Device("videoinput", "") >>]
LabelledCameras  == [ok |-> TRUE,  devices |-> << Device("videoinput", "Front Camera"),
                                                   Device("audioinput", "Microphone"),
                                                   Device("videoinput", "Back Camera") >>]
WebcamOnly       == [ok |-> TRUE,  devices |-> << Device("videoinput", "FaceTime HD Camera") >>]
MixedCaseCameras == [ok |-> TRUE,  devices |-> << Device("audioinput", "Front Microphone"),
                                                   Device("videoinput", "REAR Wide Camera") >>]

Runtime(nav, win, ua, touch, md, gum, perms, permAnswer, enumAnswer, xr, ar, vr, inl) ==
    [navigator |-> nav, window |-> win, userAgent |-> ua, touch |-> touch,
     mediaDevices |-> md, getUserMedia |-> gum,
     permissions |-> perms, permissionQuery |-> permAnswer,
     enumerateDevices |-> enumAnswer,
     xr |-> xr, immersiveAR |-> ar, immersiveVR |-> vr, inline |-> inl]

\* Execution context without navigator (server render, plain script host).
NoNavigator ==
    Runtime(FALSE, FALSE, "", FALSE, FALSE, FALSE, FALSE, Rejects,
            EnumerateRejects, FALSE, Rejects, Rejects, Rejects)

\* navigator declared, window not (worker, server runtime with a navigator
\* global).
NoWindow ==
    Runtime(TRUE, FALSE, "Node.js/22", FALSE, FALSE, FALSE, FALSE, Rejects,
            EnumerateRejects, FALSE, Rejects, Rejects, Rejects)

PhoneUA == "Mozilla/5.0 (iPhone; CPU iPhone OS 17) Mobile Safari"

\* Browsers in which every API and every query is either healthy or failing.
FailingRuntimes ==
    { Runtime(TRUE, TRUE, ua, TRUE, md, md, TRUE, perm, enum, FALSE,
              Rejects, Rejects, Rejects) :
        ua \in {Undefined, PhoneUA}, md \in BOOLEAN,
        perm \in {"granted", Rejects}, enum \in {LabelledCameras, EnumerateRejects} }
    \cup
    { Runtime(TRUE, TRUE, ua, TRUE, md, md, TRUE, perm, enum, TRUE, ar, vr, inl) :
        ua \in {Undefined, PhoneUA}, md \in BOOLEAN,
        perm \in {"granted", Rejects}, enum \in {LabelledCameras, EnumerateRejects},
        ar \in {"true", Rejects}, vr \in {"true", Rejects}, inl \in {"true", Rejects} }

\* navigator and window exist, with an empty signature and none of the
\* browser APIs the probes look for.
BareNavigator ==
    Runtime(TRUE, TRUE, "", FALSE, FALSE, FALSE, FALSE, Rejects,
            EnumerateRejects, FALSE, Rejects, Rejects, Rejects)

LifecycleRuntimes == {NoNavigator, NoWindow, BareNavigator} \cup FailingRuntimes

\* A phone whose three session-support queries each resolve true, resolve
\* false or reject.
XRRuntimes ==
    { Runtime(TRUE, TRUE, PhoneUA, TRUE, TRUE, TRUE, TRUE, "prompt",
              UnlabelledCamera, TRUE, ar, vr, inl) :
        ar \in {"true", "false", Rejects}, vr \in {"true", "false", Rejects},
        inl \in {"true", "false", Rejects} }

\* Flattening of the signature table: every pattern of every device.
AllPatterns ==
    UNION { { XR_DEVICE_SIGNATURES[i].patterns[j] :
                j \in 1..Len(XR_DEVICE_SIGNATURES[i].patterns) } :
            i \in 1..Len(XR_DEVICE_SIGNATURES) }

Quest2UA       == "Mozilla/5.0 (X11; Linux; Quest 2) OculusBrowser/30 Chrome/120 Safari/537"
RokidUA        == "Mozilla/5.0 (Linux; Android 12; Rokid Station 2) Chrome/110"
IPadUA         == "Mozilla/5.0 (iPad; CPU OS 17 like Mac OS X) Safari/604"
AndroidPhoneUA == "Mozilla/5.0 (Linux; Android 14; Pixel 8) Chrome/120 Mobile Safari/537"
AndroidTabUA   == "Mozilla/5.0 (Linux; Android 13; SM-X710) Chrome/120 Safari/537"
EdgeUA         == "Mozilla/5.0 (Windows NT 10.0) Chrome/120 Safari/537 Edg/120"
MacSafariUA    == "Mozilla/5.0 (Macintosh; Intel Mac OS X 10_15) Version/17 Safari/605"
FirefoxUA      == "Mozilla/5.0 (X11; Linux x86_64) Firefox/121"
SamsungUA      == "Mozilla/5.0 (Linux; Android 13) SamsungBrowser/23 Chrome/115 Mobile Safari/537"
OperaUA        == "Mozilla/5.0 (Windows NT 10.0) Chrome/120 Safari/537 OPR/106"
LegacyEdgeUA   == "Mozilla/5.0 (Windows NT 10.0) Chrome/64 Safari/537 Edge/17"
LowerCaseUA    == "mozilla/5.0 (linux; android 13; ipod) firefox/121 safari/537 chrome/120"

\* The signatures detection is run on: every table pattern on its own, the
\* empty string, patterns in the wrong case, two devices in one string, and
\* user agents of headsets, glasses, phones, tablets and desktops.
Signatures ==
    AllPatterns
    \cup {"", "quest 2", "pico 4 rokid air", "Pico 4 on Quest 2", "Vision Pro; Rokid Air"}
    \cup {Quest2UA, RokidUA, PhoneUA, IPadUA, AndroidPhoneUA, AndroidTabUA,
          EdgeUA, MacSafariUA, FirefoxUA, SamsungUA, OperaUA, LegacyEdgeUA,
          LowerCaseUA}

\* Healthy browsers: every signature with every camera and XR equipment.
DeviceRuntimes ==
    { Runtime(TRUE, TRUE, ua, FALSE, TRUE, TRUE, TRUE, "prompt", enum, FALSE,
              Rejects, Rejects, Rejects) :
        ua \in Signatures,
        enum \in {NoDevices, UnlabelledCamera, LabelledCameras, WebcamOnly,
                  MixedCaseCameras} }
    \cup
    { Runtime(TRUE, TRUE, ua, FALSE, TRUE, TRUE, TRUE, "prompt", enum, TRUE, ar, vr, "true") :
        ua \in Signatures,
        enum \in {NoDevices, UnlabelledCamera, LabelledCameras, WebcamOnly,
                  MixedCaseCameras},
        ar \in {"true", "false"}, vr \in {"true", "false"} }

-----------------------------------------------------------------------------
(* State                                                                    *)

VARIABLES
    runtime,       \* the browser (or other host) the hook runs in
    capabilities,  \* the React state of useDeviceCapabilities
    passes,        \* the invocations of detectCapabilities, by start order
    started,       \* number of invocations of detectCapabilities so far
    now,           \* Date.now()
    publishedBy,   \* the pass whose setCapabilities call wrote capabilities; 0: none
    requests,      \* the calls of requestCameraPermission, by call order
    lastIndex,     \* the lastIndex property of each shared RegExp object
    detected       \* the results of the platform detection calls made so far

vars == <<runtime, capabilities, passes, started, now, publishedBy, requests,
          lastIndex, detected>>

PassIds == 1..MaxPasses

RequestIds == 1..MaxRequests

\* A call of requestCameraPermission: where it stands, whether it has called
\* navigator.mediaDevices.getUserMedia, what it returned and the detection
\* pass it awaits.
IdleRequest == [pc |-> "idle", asked |-> FALSE, result |-> "none", pass |-> 0]

IdlePass ==
    [status |-> "idle", fromReady |-> FALSE,
     platform |-> DefaultPlatform, knownDevice |-> "unknown",
     camPc |-> "init", camera |-> DefaultCamera,
     xrPc |-> "init", xr |-> DefaultXR]

InitState ==
    /\ capabilities = InitialCapabilities
    /\ passes = [p \in PassIds |-> IdlePass]
    /\ started = 0
    /\ now = 1
    /\ publishedBy = 0
    /\ requests = [r \in RequestIds |-> IdleRequest]
    /\ lastIndex = [k \in PatternKeys |-> 0]
    /\ detected = {}

Init ==
    /\ runtime \in LifecycleRuntimes
    /\ InitState

-----------------------------------------------------------------------------
(* checkCameraCapabilities                                                  *)

\* Variant of CameraAfterPermission that enumerates devices in any case.
CameraAfterPermission_Always(caps) == "enumerate"

\* Lines 148-149: after the permission block the probe enumerates devices
\* only when navigator has mediaDevices.
CameraAfterPermission(caps) ==
    IF caps.supportsMediaDevices THEN "enumerate" ELSE "done"

\* Lines 117-140: the synchronous part, up to the first await.
checkCameraCapabilitiesStart(rt) ==
    IF ~ rt.navigator THEN [pc |-> "done", caps |-> DefaultCamera]
    ELSE LET caps == [DefaultCamera EXCEPT
                        !.supportsMediaDevices = rt.mediaDevices,
                        !.supportsGetUserMedia = rt.mediaDevices /\ rt.getUserMedia]
         IN  IF rt.permissions
             THEN [pc |-> "permission", caps |-> caps]
             ELSE [pc |-> CameraAfterPermission(caps), caps |-> caps]

\* Lines 140-145: the permission query settled.
PermissionState(answer) == IF answer = Rejects THEN "unknown" ELSE answer

FrontLabels == {"front", "facetime", "user"}
RearLabels  == {"back", "rear", "environment"}

LabelMatches(devices, words) ==
    \E i \in 1..Len(devices) : \E w \in words :
        includes(toLowerCase(devices[i].label), w)

\* Variant of ClassifyDevices that assumes, on a phone or tablet, each kind
\* of camera that no label named.
ClassifyDevices_AssumesMissing(caps, devices, platform) ==
    LET videoDevices == SelectSeq(devices, LAMBDA d : d.kind = "videoinput")
        hasCamera    == Len(videoDevices) > 0
        assumeBoth   == hasCamera /\ (platform.isMobile \/ platform.isTablet)
    IN  [caps EXCEPT !.hasCamera      = hasCamera,
                     !.hasFrontCamera = LabelMatches(videoDevices, FrontLabels) \/ assumeBoth,
                     !.hasRearCamera  = LabelMatches(videoDevices, RearLabels) \/ assumeBoth]

\* Lines 151-174: enumerateDevices resolved with `devices`.
ClassifyDevices(caps, devices, platform) ==
    LET videoDevices == SelectSeq(devices, LAMBDA d : d.kind = "videoinput")
        hasCamera    == Len(videoDevices) > 0
        front        == LabelMatches(videoDevices, FrontLabels)
        rear         == LabelMatches(videoDevices, RearLabels)
        assumeBoth   == /\ hasCamera /\ ~ front /\ ~ rear
                        /\ (platform.isMobile \/ platform.isTablet)
    IN  [caps EXCEPT !.hasCamera      = hasCamera,
                     !.hasFrontCamera = front \/ assumeBoth,
                     !.hasRearCamera  = rear \/ assumeBoth]

-----------------------------------------------------------------------------
(* checkXRCapabilities                                                      *)

\* Lines 187-208: the synchronous part, up to the first await.
checkXRCapabilitiesStart(rt) ==
    IF ~ rt.navigator \/ ~ rt.xr THEN [pc |-> "done", caps |-> DefaultXR]
    ELSE [pc |-> "immersive-ar", caps |-> [DefaultXR EXCEPT !.supportsWebXR = TRUE]]

\* try { await xr.isSessionSupported(mode) } catch { false }
SessionSupported(answer) == answer = "true"

\* Variant of InferAdvancedFeatures that infers from any immersive session.
InferAdvancedFeatures_AnyImmersive(caps) ==
    IF caps.supportsImmersiveAR \/ caps.supportsImmersiveVR
    THEN [caps EXCEPT !.supportsHitTest = TRUE, !.supportsDomOverlay = TRUE]
    ELSE caps

\* Lines 227-230.
InferAdvancedFeatures(caps) ==
    IF caps.supportsImmersiveAR
    THEN [caps EXCEPT !.supportsHitTest = TRUE, !.supportsDomOverlay = TRUE]
    ELSE caps

-----------------------------------------------------------------------------
(* detectCapabilities                                                       *)

\* Lines 282-288: the synchronous part of detectCapabilities.  Both probes
\* are called before the pass awaits anything, so both run to their first
\* await in the same step.  An exception thrown here rejects the promise
\* that detectCapabilities returned; nothing catches it.
detectCapabilitiesStart(rt, ready) ==
    IF getPlatformInfoThrows(rt)
       \/ detectKnownXRDeviceThrows(getPlatformInfo(rt).userAgent)
    THEN [IdlePass EXCEPT !.status = "rejected", !.fromReady = ready]
    ELSE LET platform == getPlatformInfo(rt)
             cam      == checkCameraCapabilitiesStart(rt)
             xr       == checkXRCapabilitiesStart(rt)
         IN  [status |-> "running", fromReady |-> ready,
              platform |-> platform,
              knownDevice |-> detectKnownXRDevice(platform.userAgent),
              camPc |-> cam.pc, camera |-> cam.caps,
              xrPc |-> xr.pc, xr |-> xr.caps]

\* Variant of StartDetection that marks the state as loading when a pass
\* starts.
StartDetection_SetsLoading(p) ==
    /\ passes' = [passes EXCEPT
                    ![p] = detectCapabilitiesStart(runtime, ~ capabilities.isLoading)]
    /\ started' = p
    /\ capabilities' = [capabilities EXCEPT !.isLoading = TRUE]
    /\ UNCHANGED <<runtime, now, publishedBy, lastIndex, detected>>

\* Variant of StartDetection that discards the published snapshot when a pass
\* starts.
StartDetection_ClearsSnapshot(p) ==
    /\ passes' = [passes EXCEPT
                    ![p] = detectCapabilitiesStart(runtime, ~ capabilities.isLoading)]
    /\ started' = p
    /\ capabilities' = [InitialCapabilities EXCEPT !.isLoading = capabilities.isLoading]
    /\ UNCHANGED <<runtime, now, publishedBy, lastIndex, detected>>

StartDetection(p) ==
    /\ passes' = [passes EXCEPT
                    ![p] = detectCapabilitiesStart(runtime, ~ capabilities.isLoading)]
    /\ started' = p
    /\ UNCHANGED <<runtime, capabilities, now, publishedBy, lastIndex, detected>>

\* useEffect(() => { detectCapabilities() }, [detectCapabilities])
Mount ==
    /\ started = 0
    /\ StartDetection(1)
    /\ UNCHANGED requests

\* refresh: detectCapabilities, called by the component's user (or by the
\* second run of the mount effect under reactStrictMode).
Refresh ==
    /\ started >= 1
    /\ started < MaxPasses
    /\ StartDetection(started + 1)
    /\ UNCHANGED requests

\* navigator.permissions.query settled for pass p.
PermissionSettled(p) ==
    /\ passes[p].status = "running"
    /\ passes[p].camPc = "permission"
    /\ LET caps == [passes[p].camera EXCEPT
                      !.cameraPermissionState = PermissionState(runtime.permissionQuery)]
       IN  passes' = [passes EXCEPT ![p].camera = caps,
                                    ![p].camPc = CameraAfterPermission(caps)]
    /\ UNCHANGED <<runtime, capabilities, started, now, publishedBy, requests,
                   lastIndex, detected>>

\* Variant of EnumerateSettled in which a failed enumeration rejects the probe.
EnumerateSettled_Propagates(p) ==
    /\ passes[p].status = "running"
    /\ passes[p].camPc = "enumerate"
    /\ LET answer == runtime.enumerateDevices
       IN  passes' = [passes EXCEPT
                        ![p].camera = IF answer.ok
                                      THEN ClassifyDevices(passes[p].camera, answer.devices,
                                                           getPlatformInfo(runtime))
                                      ELSE passes[p].camera,
                        ![p].camPc = "done",
                        ![p].status = IF answer.ok THEN "running" ELSE "rejected"]
    /\ UNCHANGED <<runtime, capabilities, started, now, publishedBy, requests,
                   lastIndex, detected>>

\* navigator.mediaDevices.enumerateDevices settled for pass p.  The platform
\* the probe reads at line 169 is the one of the same runtime.
EnumerateSettled(p) ==
    /\ passes[p].status = "running"
    /\ passes[p].camPc = "enumerate"
    /\ LET answer == runtime.enumerateDevices
           caps   == IF answer.ok
                     THEN ClassifyDevices(passes[p].camera, answer.devices,
                                          getPlatformInfo(runtime))
                     ELSE passes[p].camera
       IN  passes' = [passes EXCEPT ![p].camera = caps, ![p].camPc = "done"]
    /\ UNCHANGED <<runtime, capabilities, started, now, publishedBy, requests,
                   lastIndex, detected>>

\* xr.isSessionSupported('immersive-ar') settled for pass p.
ImmersiveARSettled(p) ==
    /\ passes[p].status = "running"
    /\ passes[p].xrPc = "immersive-ar"
    /\ passes' = [passes EXCEPT
                    ![p].xr.supportsImmersiveAR = SessionSupported(runtime.immersiveAR),
                    ![p].xrPc = "immersive-vr"]
    /\ UNCHANGED <<runtime, capabilities, started, now, publishedBy, requests,
                   lastIndex, detected>>

\* Variant of ImmersiveVRSettled with one try block around the queries: a
\* rejection ends the probe.
ImmersiveVRSettled_SharedTry(p) ==
    /\ passes[p].status = "running"
    /\ passes[p].xrPc = "immersive-vr"
    /\ passes' = [passes EXCEPT
                    ![p].xr.supportsImmersiveVR = SessionSupported(runtime.immersiveVR),
                    ![p].xrPc = IF runtime.immersiveVR = Rejects THEN "done"
                                ELSE "inline"]
    /\ UNCHANGED <<runtime, capabilities, started, now, publishedBy, requests,
                   lastIndex, detected>>

\* xr.isSessionSupported('immersive-vr') settled for pass p.
ImmersiveVRSettled(p) ==
    /\ passes[p].status = "running"
    /\ passes[p].xrPc = "immersive-vr"
    /\ passes' = [passes EXCEPT
                    ![p].xr.supportsImmersiveVR = SessionSupported(runtime.immersiveVR),
                    ![p].xrPc = "inline"]
    /\ UNCHANGED <<runtime, capabilities, started, now, publishedBy, requests,
                   lastIndex, detected>>

\* xr.isSessionSupported('inline') settled for pass p; the probe returns.
InlineSettled(p) ==
    /\ passes[p].status = "running"
    /\ passes[p].xrPc = "inline"
    /\ LET caps == [passes[p].xr EXCEPT
                      !.supportsInlineXR = SessionSupported(runtime.inline)]
       IN  passes' = [passes EXCEPT ![p].xr = InferAdvancedFeatures(caps),
                                    ![p].xrPc = "done"]
    /\ UNCHANGED <<runtime, capabilities, started, now, publishedBy, requests,
                   lastIndex, detected>>

\* await Promise.all([checkCameraCapabilities(), checkXRCapabilities()])
\* Variant that waits for the camera probe only.
PromiseAllSettled_CameraOnly(pass) == pass.camPc = "done"

PromiseAllSettled(pass) == pass.camPc = "done" /\ pass.xrPc = "done"

\* Variant of ApplyHandTracking that leaves the probe's value where the XR
\* API is absent.
ApplyHandTracking_NeedsWebXR(knownDevice, xr) ==
    IF knownDevice # "unknown" /\ xr.supportsWebXR
    THEN [xr EXCEPT !.supportsHandTracking =
                        KNOWN_DEVICE_PROFILES[knownDevice].hasHandTracking]
    ELSE xr

\* Lines 293-297.
ApplyHandTracking(knownDevice, xr) ==
    IF knownDevice # "unknown"
    THEN [xr EXCEPT !.supportsHandTracking =
                        KNOWN_DEVICE_PROFILES[knownDevice].hasHandTracking]
    ELSE xr

\* Lines 290-307: the value handed to setCapabilities.
Snapshot(pass, time) ==
    [deviceCategory |-> determineDeviceCategory(pass.knownDevice, pass.platform),
     knownDevice    |-> pass.knownDevice,
     platform       |-> pass.platform,
     camera         |-> pass.camera,
     xr             |-> ApplyHandTracking(pass.knownDevice, pass.xr),
     isLoading      |-> FALSE,
     lastUpdated    |-> time]

\* Variant of Publish that updates the state field by field and keeps the
\* platform it finds there.
Publish_KeepsPlatform(p) ==
    /\ passes[p].status = "running"
    /\ PromiseAllSettled(passes[p])
    /\ capabilities' = [Snapshot(passes[p], now) EXCEPT
                          !.platform = capabilities.platform]
    /\ passes' = [passes EXCEPT ![p].status = "published"]
    /\ publishedBy' = p
    /\ now' = now + 1
    /\ UNCHANGED <<runtime, started, requests, lastIndex, detected>>

\* The continuation of detectCapabilities after Promise.all.
Publish(p) ==
    /\ passes[p].status = "running"
    /\ PromiseAllSettled(passes[p])
    /\ capabilities' = Snapshot(passes[p], now)
    /\ passes' = [passes EXCEPT ![p].status = "published"]
    /\ publishedBy' = p
    /\ now' = now + 1
    /\ UNCHANGED <<runtime, started, requests, lastIndex, detected>>

Step(p) ==
    \/ PermissionSettled(p)
    \/ EnumerateSettled(p)
    \/ ImmersiveARSettled(p)
    \/ ImmersiveVRSettled(p)
    \/ InlineSettled(p)
    \/ Publish(p)

Next ==
    \/ Mount
    \/ Refresh
    \/ \E p \in PassIds : Step(p)

Spec == Init /\ [][Next]_vars

-----------------------------------------------------------------------------
(* requestCameraPermission                                                  *)

\* Lines 369-374: the synchronous part.  The callback is rebuilt whenever
\* capabilities.camera.supportsGetUserMedia changes, so a call reads the
\* published value.
\* Variant of requestCameraPermissionStart that looks for getUserMedia in the
\* runtime instead of the snapshot.
requestCameraPermissionStart_AsksRuntime(c) ==
    IF ~ (runtime.navigator /\ runtime.mediaDevices /\ runtime.getUserMedia)
    THEN [pc |-> "returned", asked |-> FALSE, result |-> "false", pass |-> 0]
    ELSE [pc |-> "getUserMedia", asked |-> TRUE, result |-> "none", pass |-> 0]

requestCameraPermissionStart(c) ==
    IF ~ c.camera.supportsGetUserMedia
    THEN [pc |-> "returned", asked |-> FALSE, result |-> "false", pass |-> 0]
    ELSE [pc |-> "getUserMedia", asked |-> TRUE, result |-> "none", pass |-> 0]

RequestCameraPermission(r) ==
    /\ requests[r].pc = "idle"
    /\ \A q \in 1..(r - 1) : requests[q].pc # "idle"
    /\ requests' = [requests EXCEPT ![r] = requestCameraPermissionStart(capabilities)]
    /\ UNCHANGED <<runtime, capabilities, passes, started, now, publishedBy,
                   lastIndex, detected>>

\* Variant of GetUserMediaRejected that re-detects before it returns false.
GetUserMediaRejected_Redetects(r) ==
    /\ requests[r].pc = "getUserMedia"
    /\ started < MaxPasses
    /\ StartDetection(started + 1)
    /\ requests' = [requests EXCEPT ![r].pc = "returned", ![r].result = "false"]

\* Lines 381-383: getUserMedia rejected (access denied, no device).
GetUserMediaRejected(r) ==
    /\ requests[r].pc = "getUserMedia"
    /\ requests' = [requests EXCEPT ![r].pc = "returned", ![r].result = "false"]
    /\ UNCHANGED <<runtime, capabilities, passes, started, now, publishedBy,
                   lastIndex, detected>>

\* Lines 374-379: getUserMedia resolved; the tracks are stopped and
\* detectCapabilities is called, which runs its synchronous part at once.
GetUserMediaGranted(r) ==
    /\ requests[r].pc = "getUserMedia"
    /\ started < MaxPasses
    /\ StartDetection(started + 1)
    /\ requests' = [requests EXCEPT ![r].pc = "detecting", ![r].pass = started + 1]

\* Variant of RequestDetectionSettled that does not await detectCapabilities.
RequestDetectionSettled_NoAwait(r) ==
    /\ requests[r].pc = "detecting"
    /\ requests' = [requests EXCEPT ![r].pc = "returned", ![r].result = "true"]
    /\ UNCHANGED <<runtime, capabilities, passes, started, now, publishedBy,
                   lastIndex, detected>>

\* Lines 379-383: the awaited detectCapabilities settled; a rejection lands
\* in the catch block.
RequestDetectionSettled(r) ==
    /\ requests[r].pc = "detecting"
    /\ passes[requests[r].pass].status \in {"published", "rejected"}
    /\ requests' = [requests EXCEPT
                      ![r].pc = "returned",
                      ![r].result = IF passes[requests[r].pass].status = "published"
                                    THEN "true" ELSE "false"]
    /\ UNCHANGED <<runtime, capabilities, passes, started, now, publishedBy,
                   lastIndex, detected>>

RequestStep(r) ==
    \/ RequestCameraPermission(r)
    \/ GetUserMediaRejected(r)
    \/ GetUserMediaGranted(r)
    \/ RequestDetectionSettled(r)

\* Phones with and without the media-device API and getUserMedia, with and
\* without WebXR.
PermissionRuntimes ==
    { Runtime(TRUE, TRUE, PhoneUA, TRUE, md, gum, TRUE, "prompt",
              UnlabelledCamera, xr, "true", "true", "true") :
        md \in BOOLEAN, gum \in BOOLEAN, xr \in BOOLEAN }

InitPermission ==
    /\ runtime \in PermissionRuntimes
    /\ InitState

NextPermission ==
    \/ Next
    \/ \E r \in RequestIds : RequestStep(r)

\* The hook with a caller that also asks for camera permission.
SpecPermission == InitPermission /\ [][NextPermission]_vars

-----------------------------------------------------------------------------
(* Platform detection as a sequence of calls on the shared patterns         *)

\* The order in which detectBrowser tests the patterns.
BrowserKeys == << "edge", "samsung", "opera", "chrome", "safari", "firefox" >>

\* Short signatures: the empty one, a phone, two tablets, and desktops with
\* the tokens of several browsers.
PlatformSignatures ==
    {"", "iPhone Mobile Safari", "iPad Mac OS X Safari",
     "Linux Android Chrome Mobile Safari", "Linux Android Chrome Safari",
     "Windows Chrome Safari Edg", "Windows Chrome Safari OPR", "Linux Firefox"}

\* Lines 98-110 run on the signature userAgent: the mobile and tablet tests,
\* detectOS (its patterns are literals, built anew on every call) and
\* detectBrowser, which stops at the first pattern that matches.
DetectPlatform(userAgent) ==
    LET test(k)  == RegExpTest(k, userAgent, lastIndex[k])
        matching == { i \in 1..Len(BrowserKeys) : test(BrowserKeys[i]).found }
        first    == IF matching = {} THEN Len(BrowserKeys)
                    ELSE CHOOSE i \in matching : \A j \in matching : i <= j
        tested   == {"mobile", "tablet"} \cup { BrowserKeys[i] : i \in 1..first }
    IN  /\ lastIndex' = [k \in PatternKeys |->
                            IF k \in tested THEN test(k).lastIndex ELSE lastIndex[k]]
        /\ detected' = detected \cup
              {[userAgent |-> userAgent,
                os        |-> detectOS(userAgent),
                browser   |-> IF matching = {} THEN "unknown" ELSE BrowserKeys[first],
                isMobile  |-> test("mobile").found,
                isTablet  |-> test("tablet").found]}
        /\ UNCHANGED <<runtime, capabilities, passes, started, now, publishedBy, requests>>

InitPlatform ==
    /\ runtime = BareNavigator
    /\ InitState

NextPlatform == \E userAgent \in PlatformSignatures : DetectPlatform(userAgent)

\* Repeated platform detection on changing signatures.
SpecPlatform == InitPlatform /\ [][NextPlatform]_vars

\* The hook on healthy browsers, used by a caller that calls refresh() only
\* when no detection pass is in flight.
InitDevices ==
    /\ runtime \in DeviceRuntimes
    /\ InitState

RefreshWhenSettled ==
    /\ \A p \in PassIds : passes[p].status # "running"
    /\ Refresh

NextDevices ==
    \/ Mount
    \/ RefreshWhenSettled
    \/ \E p \in PassIds : Step(p)

SpecDevices == InitDevices /\ [][NextDevices]_vars

\* The hook on a phone with every outcome of the session-support queries,
\* used by a caller that calls refresh() only when no pass is in flight.
InitXR ==
    /\ runtime \in XRRuntimes
    /\ InitState

SpecXR == InitXR /\ [][NextDevices]_vars

-----------------------------------------------------------------------------
(* getRecommendations                                                       *)

Append2(features, flag, label) == IF flag THEN Append(features, label) ELSE features

\* Variant of RecommendKnown that takes room scanning from the camera flag.
RecommendKnown_ScanByCamera(profile) ==
    [canScanRoom        |-> profile.hasCamera,
     canUsePassthrough  |-> profile.hasPassthrough,
     canUseHandTracking |-> profile.hasHandTracking,
     recommendedMode    |-> profile.recommendedMode,
     features |->
        Append2(Append2(Append2(Append2(<< >>,
            profile.hasPassthrough,   "Passthrough AR"),
            profile.hasHandTracking,  "Hand Tracking"),
            profile.hasCamera,        "Room Scanning"),
            profile.hasCamera,        "Camera")]

\* Lines 326-336: the catalog branch.
RecommendKnown(profile) ==
    [canScanRoom        |-> profile.supportsRoomScan,
     canUsePassthrough  |-> profile.hasPassthrough,
     canUseHandTracking |-> profile.hasHandTracking,
     recommendedMode    |-> profile.recommendedMode,
     features |->
        Append2(Append2(Append2(Append2(<< >>,
            profile.hasPassthrough,   "Passthrough AR"),
            profile.hasHandTracking,  "Hand Tracking"),
            profile.supportsRoomScan, "Room Scanning"),
            profile.hasCamera,        "Camera")]

\* Variant of DetectedMode that recommends 'vr' wherever WebXR exists.
DetectedMode_WebXRMeansVR(xr) ==
    IF xr.supportsImmersiveAR THEN "ar"
    ELSE IF xr.supportsImmersiveVR \/ xr.supportsWebXR THEN "vr" ELSE "null"

\* Variant of DetectedMode that tests immersive-vr first.
DetectedMode_VRFirst(xr) ==
    IF xr.supportsImmersiveVR THEN "vr"
    ELSE IF xr.supportsImmersiveAR THEN "ar" ELSE "null"

\* Lines 339-346: the mode inferred from the XR probe.
DetectedMode(xr) ==
    IF xr.supportsImmersiveAR THEN "ar"
    ELSE IF xr.supportsImmersiveVR THEN "vr" ELSE "null"

\* Variant of CanScanWithCamera that accepts a camera on any device.
CanScanWithCamera_AnyDevice(deviceCategory, camera) == camera.hasCamera

\* Lines 348-352: a camera on a mobile or tablet can scan rooms.
CanScanWithCamera(deviceCategory, camera) ==
    /\ camera.hasCamera
    /\ (deviceCategory = "mobile" \/ deviceCategory = "tablet")

\* Lines 338-355: inference from the probes.
RecommendDetected(deviceCategory, camera, xr) ==
    LET mode    == DetectedMode(xr)
        preview == IF mode = "ar" THEN << "AR Preview" >>
                   ELSE IF mode = "vr" THEN << "VR Preview" >> ELSE << >>
        scan    == CanScanWithCamera(deviceCategory, camera)
    IN  [canScanRoom        |-> scan,
         canUsePassthrough  |-> mode = "ar",
         canUseHandTracking |-> FALSE,
         recommendedMode    |-> mode,
         features |->
            Append2(Append2(preview,
                camera.hasCamera, "Camera"),
                scan,             "Room Scanning (via camera)")]

\* Variant of getRecommendations that adds what the camera probe found to the
\* recommendation of a known device.
getRecommendations_MergesProbes(c) ==
    IF c.knownDevice # "unknown"
    THEN LET r == RecommendKnown(KNOWN_DEVICE_PROFILES[c.knownDevice])
         IN  [r EXCEPT !.canScanRoom = @ \/ c.camera.hasCamera]
    ELSE RecommendDetected(c.deviceCategory, c.camera, c.xr)

getRecommendations(c) ==
    IF c.knownDevice # "unknown"
    THEN RecommendKnown(KNOWN_DEVICE_PROFILES[c.knownDevice])
    ELSE RecommendDetected(c.deviceCategory, c.camera, c.xr)

-----------------------------------------------------------------------------
(* getDeviceDescription                                                     *)

\* Line 406: platform.os.charAt(0).toUpperCase() + platform.os.slice(1)
Capitalize(os) ==
    IF Len(os) = 0 THEN ""
    ELSE toUpperCaseChar(SubSeq(os, 1, 1)) \o SubSeq(os, 2, Len(os))

\* Variant of getDeviceDescription that does not capitalise the OS name.
getDeviceDescription_RawOS(c) ==
    IF c.knownDevice # "unknown" THEN KNOWN_DEVICE_PROFILES[c.knownDevice].name
    ELSE CASE c.deviceCategory = "mobile" ->
                IF c.platform.os = "ios" THEN "iPhone"
                ELSE IF c.platform.os = "android" THEN "Android Phone"
                ELSE "Mobile Device"
           [] c.deviceCategory = "tablet" ->
                IF c.platform.os = "ios" THEN "iPad"
                ELSE IF c.platform.os = "android" THEN "Android Tablet"
                ELSE "Tablet"
           [] c.deviceCategory = "desktop" -> c.platform.os \o " Computer"
           [] OTHER -> "Unknown Device"

getDeviceDescription(c) ==
    IF c.knownDevice # "unknown" THEN KNOWN_DEVICE_PROFILES[c.knownDevice].name
    ELSE CASE c.deviceCategory = "mobile" ->
                IF c.platform.os = "ios" THEN "iPhone"
                ELSE IF c.platform.os = "android" THEN "Android Phone"
                ELSE "Mobile Device"
           [] c.deviceCategory = "tablet" ->
                IF c.platform.os = "ios" THEN "iPad"
                ELSE IF c.platform.os = "android" THEN "Android Tablet"
                ELSE "Tablet"
           [] c.deviceCategory = "desktop" ->
                IF c.platform.os = "unknown" THEN "Desktop Computer"
                ELSE Capitalize(c.platform.os) \o " Computer"
           [] OTHER -> "Unknown Device"

-----------------------------------------------------------------------------
(* Properties                                                               *)

InFlight(p) == passes[p].status = "running"

Published == publishedBy # 0

BothProbesReturned(p) == passes[p].camPc = "done" /\ passes[p].xrPc = "done"

Range(seq) == { seq[i] : i \in 1..Len(seq) }

\* C1 (as stated): after refresh() in the ready state, isLoading is true
\* for as long as the probes of the new pass have not both settled.
C1_RefreshEntersLoading ==
    \A p \in PassIds :
        (InFlight(p) /\ passes[p].fromReady /\ ~ BothProbesReturned(p))
            => capabilities.isLoading

\* C1 (amended): refresh() leaves the component ready.  Once isLoading is
\* false no step makes it true again, and the only step that clears it is the
\* first publication of a snapshot.
C1_RefreshKeepsReady ==
    [][ /\ (~ capabilities.isLoading => ~ capabilities'.isLoading)
        /\ (capabilities.isLoading /\ ~ capabilities'.isLoading
               => publishedBy = 0 /\ publishedBy' # 0) ]_vars

\* A pass started by refresh() in the ready state is in flight, its probes
\* unsettled, and the component is ready.
C1_Witness ==
    \E p \in PassIds :
        /\ InFlight(p) /\ passes[p].fromReady
        /\ ~ BothProbesReturned(p)
        /\ ~ capabilities.isLoading

\* C2: the snapshot of an earlier-started pass never replaces the snapshot
\* of a later-started pass.
C2_NoStaleOverwrite == [][publishedBy' >= publishedBy]_vars

\* C3: both probes of a pass are started in the step that starts the pass,
\* and a snapshot is published (isLoading = false) only by a pass whose
\* probes have both returned; it carries the final blocks of both.
C3_PublishAfterBothProbes ==
    /\ \A p \in PassIds :
          /\ InFlight(p) => passes[p].camPc # "init" /\ passes[p].xrPc # "init"
          /\ passes[p].status = "published" => BothProbesReturned(p)
    /\ ~ capabilities.isLoading => Published
    /\ Published =>
          /\ BothProbesReturned(publishedBy)
          /\ capabilities.camera = passes[publishedBy].camera
          /\ capabilities.xr = ApplyHandTracking(passes[publishedBy].knownDevice,
                                                 passes[publishedBy].xr)

\* A snapshot is published in a browser where both probes had to wait for
\* the runtime.
C3_Witness ==
    /\ Published
    /\ runtime.permissions /\ runtime.mediaDevices /\ runtime.xr
    /\ capabilities.xr.supportsWebXR
    /\ capabilities.camera.hasCamera

\* C4: no detection pass rejects, whatever is missing or failing in the
\* runtime.
C4_PassNeverRejects == \A p \in PassIds : passes[p].status # "rejected"

\* C5: a signature equal to a pattern of the signature table resolves to the
\* device key the pattern is listed under.
C5_PatternResolvesToItsKey ==
    \A i \in 1..Len(XR_DEVICE_SIGNATURES) :
        \A j \in 1..Len(XR_DEVICE_SIGNATURES[i].patterns) :
            (Published /\ capabilities.platform.userAgent
                              = XR_DEVICE_SIGNATURES[i].patterns[j])
                => capabilities.knownDevice = XR_DEVICE_SIGNATURES[i].device

\* Entry i of the signature table has a pattern that occurs in ua.
Occurs(ua, i) ==
    \E j \in 1..Len(XR_DEVICE_SIGNATURES[i].patterns) :
        \E k \in 0..(Len(ua) - Len(XR_DEVICE_SIGNATURES[i].patterns[j])) :
            SubSeq(ua, k + 1, k + Len(XR_DEVICE_SIGNATURES[i].patterns[j]))
                = XR_DEVICE_SIGNATURES[i].patterns[j]

\* C6: knownDevice is the first key, in table order, with a pattern that
\* occurs (case-sensitively) in the signature, 'unknown' when there is none,
\* and always a key of the profile catalog.
C6_FirstKeyInTableOrder ==
    LET ua      == capabilities.platform.userAgent
        entries == 1..Len(XR_DEVICE_SIGNATURES)
    IN  /\ capabilities.knownDevice \in DOMAIN KNOWN_DEVICE_PROFILES
        /\ IF \E i \in entries : Occurs(ua, i)
           THEN \E i \in entries :
                    /\ Occurs(ua, i)
                    /\ \A k \in 1..(i - 1) : ~ Occurs(ua, k)
                    /\ capabilities.knownDevice = XR_DEVICE_SIGNATURES[i].device
           ELSE capabilities.knownDevice = "unknown"

\* The signature names a later table entry before an earlier one; the
\* earlier entry wins.
C6_Witness ==
    /\ Published
    /\ capabilities.platform.userAgent = "Pico 4 on Quest 2"
    /\ capabilities.knownDevice = "meta-quest-2"

KnownFeatureLabels == << "Passthrough AR", "Hand Tracking", "Room Scanning", "Camera" >>

FlagOfLabel(profile, label) ==
    CASE label = "Passthrough AR" -> profile.hasPassthrough
      [] label = "Hand Tracking"  -> profile.hasHandTracking
      [] label = "Room Scanning"  -> profile.supportsRoomScan
      [] label = "Camera"         -> profile.hasCamera

\* C7: for a known device the recommendation is read off the catalog
\* profile, and features is the sub-list of the four labels whose catalog
\* flag is set; for Rokid Station 2: 'ar', passthrough, no hand tracking.
C7_KnownDeviceFollowsCatalog ==
    capabilities.knownDevice # "unknown" =>
        LET profile == KNOWN_DEVICE_PROFILES[capabilities.knownDevice]
            r       == getRecommendations(capabilities)
        IN  /\ r.recommendedMode = profile.recommendedMode
            /\ r.canScanRoom = profile.supportsRoomScan
            /\ r.canUsePassthrough = profile.hasPassthrough
            /\ r.canUseHandTracking = profile.hasHandTracking
            /\ r.features = SelectSeq(KnownFeatureLabels,
                                      LAMBDA l : FlagOfLabel(profile, l))
            /\ capabilities.knownDevice = "rokid-station-2" =>
                  /\ r.recommendedMode = "ar"
                  /\ r.canUsePassthrough
                  /\ ~ r.canUseHandTracking
                  /\ "Passthrough AR" \in Range(r.features)

\* A signature containing 'Rokid Station 2' has been detected.
C7_Witness ==
    /\ Published
    /\ includes(capabilities.platform.userAgent, "Rokid Station 2")
    /\ capabilities.knownDevice = "rokid-station-2"
    /\ getRecommendations(capabilities).features = << "Passthrough AR" >>

\* The snapshot that has nothing but the device key.
ProfileOnly(device) == [InitialCapabilities EXCEPT !.knownDevice = device]

\* C8: for a known device the recommendation is the one of the bare device
\* key, whatever the probes found; for Quest 2 it is 'vr' without room scan.
C8_ProbesDoNotInfluenceKnownDevice ==
    capabilities.knownDevice # "unknown" =>
        /\ getRecommendations(capabilities)
              = getRecommendations(ProfileOnly(capabilities.knownDevice))
        /\ capabilities.knownDevice = "meta-quest-2" =>
              /\ getRecommendations(capabilities).recommendedMode = "vr"
              /\ ~ getRecommendations(capabilities).canScanRoom

\* Quest 2 with a camera and immersive-ar support detected.
C8_Witness ==
    /\ Published
    /\ capabilities.knownDevice = "meta-quest-2"
    /\ capabilities.camera.hasCamera
    /\ capabilities.xr.supportsImmersiveAR
    /\ capabilities.platform.userAgent = Quest2UA

\* C9: without a known device, immersive-ar decides for 'ar' with
\* passthrough, also when immersive-vr is supported; else immersive-vr for
\* 'vr'; else there is no mode; passthrough only with immersive-ar.
C9_UnknownDeviceMode ==
    capabilities.knownDevice = "unknown" =>
        LET r == getRecommendations(capabilities)
        IN  /\ capabilities.xr.supportsImmersiveAR
                  => r.recommendedMode = "ar" /\ r.canUsePassthrough
            /\ (~ capabilities.xr.supportsImmersiveAR
                    /\ capabilities.xr.supportsImmersiveVR)
                  => r.recommendedMode = "vr" /\ ~ r.canUsePassthrough
            /\ (~ capabilities.xr.supportsImmersiveAR
                    /\ ~ capabilities.xr.supportsImmersiveVR)
                  => r.recommendedMode = "null" /\ ~ r.canUsePassthrough

\* An unknown device that supports both immersive-ar and immersive-vr.
C9_Witness ==
    /\ Published
    /\ capabilities.knownDevice = "unknown"
    /\ capabilities.xr.supportsImmersiveAR
    /\ capabilities.xr.supportsImmersiveVR
    /\ getRecommendations(capabilities).recommendedMode = "ar"

RoomScanLabel == "Room Scanning (via camera)"

\* C10: without a known device, 'Camera' is listed exactly when a camera was
\* found, room scanning is offered exactly when a camera was found on a
\* mobile or tablet, and its label then follows 'Camera'; XR support plays
\* no part.  An iPhone with immersive-ar and an unlabelled camera gets 'ar',
\* room scanning and both labels.
C10_UnknownDeviceCamera ==
    capabilities.knownDevice = "unknown" =>
        LET r        == getRecommendations(capabilities)
            handheld == capabilities.deviceCategory \in {"mobile", "tablet"}
        IN  /\ ("Camera" \in Range(r.features)) = capabilities.camera.hasCamera
            /\ r.canScanRoom = (capabilities.camera.hasCamera /\ handheld)
            /\ (RoomScanLabel \in Range(r.features)) = r.canScanRoom
            /\ r.canScanRoom =>
                  \E i \in 1..Len(r.features) :
                      /\ i < Len(r.features)
                      /\ r.features[i] = "Camera"
                      /\ r.features[i + 1] = RoomScanLabel
            /\ ( /\ Published
                 /\ includes(capabilities.platform.userAgent, "iPhone")
                 /\ capabilities.xr.supportsImmersiveAR
                 /\ capabilities.camera.hasCamera )
                  => /\ r.recommendedMode = "ar"
                     /\ r.canScanRoom
                     /\ {"Camera", RoomScanLabel} \subseteq Range(r.features)

\* The iPhone of the scenario: immersive-ar, one camera without a label.
C10_Witness ==
    /\ Published
    /\ capabilities.platform.userAgent = PhoneUA
    /\ runtime.enumerateDevices = UnlabelledCamera
    /\ capabilities.xr.supportsImmersiveAR
    /\ capabilities.camera.hasFrontCamera /\ capabilities.camera.hasRearCamera
    /\ getRecommendations(capabilities).canScanRoom

EmptyRecommendation ==
    [canScanRoom |-> FALSE, canUsePassthrough |-> FALSE,
     canUseHandTracking |-> FALSE, recommendedMode |-> "null", features |-> << >>]

\* C11: an unknown device without camera, immersive-ar and immersive-vr
\* gets the empty recommendation: no mode, every flag false, no features.
C11_EmptyRecommendation ==
    ( /\ capabilities.knownDevice = "unknown"
      /\ ~ capabilities.camera.hasCamera
      /\ ~ capabilities.xr.supportsImmersiveAR
      /\ ~ capabilities.xr.supportsImmersiveVR )
        => getRecommendations(capabilities) = EmptyRecommendation

\* A browser with WebXR and inline sessions but no immersive session and no
\* camera has been detected.
C11_Witness ==
    /\ Published
    /\ capabilities.knownDevice = "unknown"
    /\ capabilities.xr.supportsWebXR /\ capabilities.xr.supportsInlineXR
    /\ ~ capabilities.xr.supportsImmersiveAR /\ ~ capabilities.xr.supportsImmersiveVR
    /\ ~ capabilities.camera.hasCamera
    /\ getRecommendations(capabilities) = EmptyRecommendation

\* C12: the published category is the catalog category of a known device,
\* whatever the platform flags; otherwise 'tablet' when the tablet pattern
\* matches the signature, else 'mobile' when the mobile pattern matches,
\* else 'desktop'.
C12_CategoryResolution ==
    Published =>
        LET ua == capabilities.platform.userAgent
        IN  /\ capabilities.deviceCategory =
                  IF capabilities.knownDevice # "unknown"
                  THEN KNOWN_DEVICE_PROFILES[capabilities.knownDevice].category
                  ELSE IF MOBILE_DEVICE_PATTERNS_tablet(ua) THEN "tablet"
                  ELSE IF MOBILE_DEVICE_PATTERNS_mobile(ua) THEN "mobile"
                  ELSE "desktop"
            /\ ua = IPadUA         => capabilities.deviceCategory = "tablet"
            /\ ua = AndroidTabUA   => capabilities.deviceCategory = "tablet"
            /\ ua = AndroidPhoneUA => capabilities.deviceCategory = "mobile"
            /\ ua = PhoneUA        => capabilities.deviceCategory = "mobile"
            /\ ua = EdgeUA         => capabilities.deviceCategory = "desktop"
            /\ ua = RokidUA        => capabilities.deviceCategory = "ar-glasses"

\* An iPad: the mobile pattern and the tablet pattern both match.
C12_Witness ==
    /\ Published
    /\ capabilities.platform.userAgent = IPadUA
    /\ capabilities.platform.isMobile /\ capabilities.platform.isTablet
    /\ capabilities.deviceCategory = "tablet"

\* C18: the description is the catalog name of a known device; otherwise
\* it is composed from category and OS, with the OS name capitalised for a
\* desktop and 'Desktop Computer' when the OS is unknown.
C18_DeviceDescription ==
    LET d   == getDeviceDescription(capabilities)
        os  == capabilities.platform.os
        cat == capabilities.deviceCategory
    IN  /\ capabilities.knownDevice # "unknown"
              => d = KNOWN_DEVICE_PROFILES[capabilities.knownDevice].name
        /\ capabilities.knownDevice = "unknown" =>
              /\ (cat = "mobile" /\ os = "ios") => d = "iPhone"
              /\ (cat = "mobile" /\ os = "android") => d = "Android Phone"
              /\ (cat = "mobile" /\ os \notin {"ios", "android"}) => d = "Mobile Device"
              /\ (cat = "tablet" /\ os = "ios") => d = "iPad"
              /\ (cat = "tablet" /\ os = "android") => d = "Android Tablet"
              /\ (cat = "tablet" /\ os \notin {"ios", "android"}) => d = "Tablet"
              /\ (cat = "desktop" /\ os = "windows") => d = "Windows Computer"
              /\ (cat = "desktop" /\ os = "macos") => d = "Macos Computer"
              /\ (cat = "desktop" /\ os = "linux") => d = "Linux Computer"
              /\ (cat = "desktop" /\ os = "unknown") => d = "Desktop Computer"
              /\ cat = "desktop" =>
                    d \in {"Windows Computer", "Macos Computer", "Linux Computer",
                           "Desktop Computer"}

\* A Windows desktop has been detected and described.
C18_Witness ==
    /\ Published
    /\ capabilities.platform.userAgent = EdgeUA
    /\ capabilities.deviceCategory = "desktop"
    /\ getDeviceDescription(capabilities) = "Windows Computer"

\* C15: the published snapshot is, in all five blocks, the snapshot of one
\* pass: the pass that published last.
C15_SnapshotFromOnePass ==
    Published =>
        LET pass == passes[publishedBy]
        IN  /\ pass.status = "published"
            /\ capabilities.knownDevice = pass.knownDevice
            /\ capabilities.platform = pass.platform
            /\ capabilities.camera = pass.camera
            /\ capabilities.xr.supportsWebXR = pass.xr.supportsWebXR
            /\ capabilities.xr.supportsImmersiveAR = pass.xr.supportsImmersiveAR
            /\ capabilities.xr.supportsImmersiveVR = pass.xr.supportsImmersiveVR
            /\ capabilities.xr.supportsInlineXR = pass.xr.supportsInlineXR
            /\ capabilities.xr.supportsHitTest = pass.xr.supportsHitTest
            /\ capabilities.xr.supportsDomOverlay = pass.xr.supportsDomOverlay
            /\ pass.knownDevice # "unknown" =>
                  /\ capabilities.deviceCategory
                        = KNOWN_DEVICE_PROFILES[pass.knownDevice].category
                  /\ capabilities.xr.supportsHandTracking
                        = KNOWN_DEVICE_PROFILES[pass.knownDevice].hasHandTracking
            /\ pass.knownDevice = "unknown" =>
                  /\ capabilities.xr.supportsHandTracking = pass.xr.supportsHandTracking
                  /\ capabilities.deviceCategory \in {"tablet", "mobile", "desktop"}
                  /\ capabilities.deviceCategory = "tablet" => pass.platform.isTablet
                  /\ capabilities.deviceCategory = "mobile" => pass.platform.isMobile
            /\ capabilities.platform.userAgent = runtime.userAgent

\* Two passes overlapped and both have published.
C15_Witness ==
    /\ Published
    /\ \A p \in PassIds : passes[p].status = "published"
    /\ publishedBy = 1
    /\ capabilities.platform.userAgent = PhoneUA
    /\ capabilities.xr.supportsWebXR

\* C16: once the queries of every started pass have settled and the passes
\* have ended, the component is ready.
C16_SettledPassesReachReady ==
    (started >= 1 /\ \A p \in PassIds : ~ InFlight(p))
        => ~ capabilities.isLoading

NonBrowser == ~ runtime.navigator \/ runtime = BareNavigator

C19_QueriesFailIndependently ==
    (Published /\ runtime.xr) =>
        /\ capabilities.xr.supportsWebXR
        /\ capabilities.xr.supportsImmersiveAR = (runtime.immersiveAR = "true")
        /\ capabilities.xr.supportsImmersiveVR = (runtime.immersiveVR = "true")
        /\ capabilities.xr.supportsInlineXR = (runtime.inline = "true")

\* The immersive-vr query rejected; the flags of the other two are true.
C19_Witness ==
    /\ Published
    /\ runtime.immersiveVR = Rejects
    /\ capabilities.xr.supportsWebXR
    /\ capabilities.xr.supportsImmersiveAR
    /\ ~ capabilities.xr.supportsImmersiveVR
    /\ capabilities.xr.supportsInlineXR

NoMediaDevices == ~ (runtime.navigator /\ runtime.mediaDevices)

\* C20 (as stated): without the media-device API the camera block has no
\* camera and permission state 'unknown'.
C20_NoMediaDevicesAllDefault ==
    (Published /\ NoMediaDevices) =>
        /\ ~ capabilities.camera.hasCamera
        /\ ~ capabilities.camera.hasFrontCamera
        /\ ~ capabilities.camera.hasRearCamera
        /\ capabilities.camera.cameraPermissionState = "unknown"

\* C20 (amended): without the media-device API the camera block has no
\* camera; its permission state is the answer of the permission query, and
\* 'unknown' when there is no permissions API or the query rejected.
C20_NoMediaDevicesNoCamera ==
    (Published /\ NoMediaDevices) =>
        /\ ~ capabilities.camera.hasCamera
        /\ ~ capabilities.camera.hasFrontCamera
        /\ ~ capabilities.camera.hasRearCamera
        /\ ~ capabilities.camera.supportsMediaDevices
        /\ ~ capabilities.camera.supportsGetUserMedia
        /\ capabilities.camera.cameraPermissionState =
              IF runtime.navigator /\ runtime.permissions
                    /\ runtime.permissionQuery # Rejects
              THEN runtime.permissionQuery
              ELSE "unknown"

\* No media-device API, and the permission query answered 'granted'.
C20_Witness ==
    /\ Published
    /\ runtime.navigator /\ ~ runtime.mediaDevices
    /\ ~ capabilities.camera.hasCamera
    /\ capabilities.camera.cameraPermissionState = "granted"

\* C13: a granted request starts a new detection pass, and the request
\* returns true only when that pass has published its snapshot.
C13_GrantAwaitsDetection ==
    [][\A r \in RequestIds :
          /\ (requests[r].pc = "getUserMedia" /\ requests'[r].pc = "detecting")
                => /\ started' = started + 1
                   /\ requests'[r].pass = started'
                   /\ passes[started'].status = "idle"
                   /\ passes'[started'].status # "idle"
          /\ requests'[r].pc = "detecting" =>
                /\ requests'[r].pass \in 1..started'
                /\ passes'[requests'[r].pass].status # "idle"
          /\ requests'[r].result = "true" =>
                /\ requests'[r].pass \in 1..started'
                /\ passes'[requests'[r].pass].status = "published"
                /\ publishedBy' # 0 /\ ~ capabilities'.isLoading
          /\ (requests[r].result # "true" /\ requests'[r].result = "true") =>
                /\ requests[r].pc = "detecting"
                /\ passes[requests[r].pass].status = "published"
      ]_vars

\* A request was granted and has returned true after its pass published.
C13_Witness ==
    \E r \in RequestIds :
        /\ requests[r].asked
        /\ requests[r].result = "true"
        /\ passes[requests[r].pass].status = "published"
        /\ publishedBy = requests[r].pass

\* C14: a request that finds getUserMedia unsupported, or whose getUserMedia
\* call rejects, returns false in a step that starts no pass and leaves the
\* snapshot as it is.
C14_DenialChangesNothing ==
    [][\A r \in RequestIds :
          (requests[r].pc \in {"idle", "getUserMedia"}
              /\ requests'[r].pc = "returned")
            => /\ requests'[r].result = "false"
               /\ requests'[r].pass = 0
               /\ UNCHANGED <<capabilities, passes, started, publishedBy>>]_vars

\* getUserMedia is supported, the request was denied and returned false.
C14_Witness ==
    \E r \in RequestIds :
        /\ requests[r].pc = "returned"
        /\ requests[r].result = "false"
        /\ requests[r].pass = 0
        /\ requests[r].asked

\* The camera probe of pass p has returned after its enumeration failed.
EnumerationFailed(p) ==
    /\ passes[p].status \in {"running", "published"}
    /\ passes[p].camPc = "done"
    /\ runtime.navigator /\ runtime.mediaDevices
    /\ ~ runtime.enumerateDevices.ok

\* C21 as stated: after a failed enumeration the camera probe resolves to
\* the default block, every field at its initial default.
C21_EnumerationFailureAllDefault ==
    \A p \in PassIds : EnumerationFailed(p) => passes[p].camera = DefaultCamera

\* C21 amended: a failed enumeration does not reject the probe or the pass;
\* the three camera flags are false, and the fields set before the
\* enumeration keep their values: supportsMediaDevices is true,
\* supportsGetUserMedia tells whether getUserMedia exists and the permission
\* state is the answer of the permission query.
C21_EnumerationFailureNoCamera ==
    [][\A p \in PassIds :
          /\ (passes[p].camPc = "enumerate" /\ passes'[p].camPc # "enumerate")
                => /\ passes'[p].status = "running"
                   /\ passes'[p].camPc = "done"
          /\ EnumerationFailed(p)' =>
                passes'[p].camera =
                  [hasCamera |-> FALSE, hasFrontCamera |-> FALSE,
                   hasRearCamera |-> FALSE,
                   supportsMediaDevices |-> TRUE,
                   supportsGetUserMedia |-> runtime.getUserMedia,
                   cameraPermissionState |->
                     IF runtime.permissions /\ runtime.permissionQuery # Rejects
                     THEN runtime.permissionQuery ELSE "unknown"]
      ]_vars

\* A pass published the snapshot after its enumeration failed, with a
\* permission state other than the default in it.
C21_Witness ==
    \E p \in PassIds :
        /\ EnumerationFailed(p)
        /\ passes[p].status = "published"
        /\ publishedBy = p
        /\ capabilities.camera.supportsMediaDevices
        /\ capabilities.camera.cameraPermissionState = "granted"

\* Some video input of the enumeration has a label that, lower-cased,
\* contains one of the words.
VideoLabelNames(devices, words) ==
    \E i \in 1..Len(devices) :
        /\ devices[i].kind = "videoinput"
        /\ \E w \in words : includes(toLowerCase(devices[i].label), w)

HasVideoInput(devices) ==
    \E i \in 1..Len(devices) : devices[i].kind = "videoinput"

\* C22: after a successful enumeration a camera is front when a video
\* input's lower-cased label contains 'front', 'facetime' or 'user' and rear
\* when it contains 'back', 'rear' or 'environment'; with a camera and no
\* matching label both are assumed on a mobile or tablet platform and none
\* elsewhere, and a matching label rules the assumption out.
C22_LabelClassification ==
    \A p \in PassIds :
        (/\ passes[p].status \in {"running", "published"}
         /\ passes[p].camPc = "done"
         /\ runtime.mediaDevices /\ runtime.enumerateDevices.ok) =>
        LET devices == runtime.enumerateDevices.devices
            front   == VideoLabelNames(devices, {"front", "facetime", "user"})
            rear    == VideoLabelNames(devices, {"back", "rear", "environment"})
            handheld == passes[p].platform.isMobile \/ passes[p].platform.isTablet
            camera  == passes[p].camera
        IN  /\ camera.hasCamera = HasVideoInput(devices)
            /\ (front \/ rear) =>
                  /\ camera.hasFrontCamera = front
                  /\ camera.hasRearCamera = rear
            /\ (HasVideoInput(devices) /\ ~ front /\ ~ rear) =>
                  /\ camera.hasFrontCamera = handheld
                  /\ camera.hasRearCamera = handheld
            /\ ~ HasVideoInput(devices) =>
                  /\ ~ camera.hasFrontCamera
                  /\ ~ camera.hasRearCamera

\* A tablet published a snapshot in which both cameras are assumed for an
\* unlabelled video input.
C22_Witness ==
    /\ Published
    /\ runtime.enumerateDevices = UnlabelledCamera
    /\ capabilities.platform.isTablet
    /\ capabilities.camera.hasFrontCamera
    /\ capabilities.camera.hasRearCamera

\* C23: in every result of the XR probe, and in every snapshot, hit-test and
\* DOM-overlay support both equal immersive-AR support, which is the answer
\* of the immersive-ar query alone; the probe makes the three
\* session-support queries and nothing else.
C23_AdvancedFeaturesFollowAR ==
    /\ \A p \in PassIds :
          (passes[p].status \in {"running", "published"} /\ passes[p].xrPc = "done") =>
            LET ar == runtime.navigator /\ runtime.xr /\ runtime.immersiveAR = "true"
            IN  /\ passes[p].xr.supportsImmersiveAR = ar
                /\ passes[p].xr.supportsHitTest = ar
                /\ passes[p].xr.supportsDomOverlay = ar
    /\ capabilities.xr.supportsHitTest = capabilities.xr.supportsImmersiveAR
    /\ capabilities.xr.supportsDomOverlay = capabilities.xr.supportsImmersiveAR
    /\ \A p \in PassIds :
          passes[p].xrPc \in {"init", "immersive-ar", "immersive-vr", "inline", "done"}

\* A snapshot without immersive-ar but with immersive-vr and inline support
\* was published: neither feature is inferred from the other two queries.
C23_Witness ==
    /\ Published
    /\ capabilities.xr.supportsWebXR
    /\ ~ capabilities.xr.supportsImmersiveAR
    /\ capabilities.xr.supportsImmersiveVR
    /\ capabilities.xr.supportsInlineXR
    /\ ~ capabilities.xr.supportsHitTest
    /\ ~ capabilities.xr.supportsDomOverlay

\* The lower-cased signature carries one of the tokens.
Carries(ua, tokens) == \E t \in tokens : includes(ua, t)

\* The key of the first entry of `order` whose tokens the signature carries.
FirstCarried(ua, order) ==
    IF \E i \in 1..Len(order) : Carries(ua, order[i].tokens)
    THEN order[CHOOSE i \in 1..Len(order) :
                  /\ Carries(ua, order[i].tokens)
                  /\ \A j \in 1..(i - 1) : ~ Carries(ua, order[j].tokens)].key
    ELSE "unknown"

OSOrder ==
    << [key |-> "ios",     tokens |-> {"iphone", "ipad", "ipod"}],
       [key |-> "android", tokens |-> {"android"}],
       [key |-> "windows", tokens |-> {"windows"}],
       [key |-> "macos",   tokens |-> {"mac os x"}],
       [key |-> "linux",   tokens |-> {"linux"}] >>

\* C24: the os of every published snapshot is the first match of the
\* signature in the order ios, android, windows, macos, linux, and 'unknown'
\* without a match; iPad with 'Mac OS X' is ios, 'Android' with 'Linux' is
\* android.
C24_OSFirstMatch ==
    Published =>
        LET ua == toLowerCase(runtime.userAgent)
            os == capabilities.platform.os
        IN  /\ os = FirstCarried(ua, OSOrder)
            /\ os \in {"ios", "android", "windows", "macos", "linux", "unknown"}
            /\ (Carries(ua, {"ipad"}) /\ Carries(ua, {"mac os x"})) => os = "ios"
            /\ (Carries(ua, {"android"}) /\ Carries(ua, {"linux"})
                  /\ ~ Carries(ua, {"iphone", "ipad", "ipod"})) => os = "android"
            /\ ua = "" => os = "unknown"

\* An iPad signature that names Mac OS X was published as ios.
C24_Witness ==
    /\ Published
    /\ runtime.userAgent = IPadUA
    /\ Carries(toLowerCase(runtime.userAgent), {"mac os x"})
    /\ capabilities.platform.os = "ios"

BrowserOrder ==
    << [key |-> "edge",    tokens |-> {"edge", "edg"}],
       [key |-> "samsung", tokens |-> {"samsungbrowser"}],
       [key |-> "opera",   tokens |-> {"opera", "opr"}],
       [key |-> "chrome",  tokens |-> {"chrome"}],
       [key |-> "safari",  tokens |-> {"safari"}],
       [key |-> "firefox", tokens |-> {"firefox"}] >>

\* C25: the browser of every published snapshot is the first match of the
\* signature in the order edge, samsung, opera, chrome, safari, firefox, and
\* 'unknown' without a match; an Edge, Samsung or Opera token with 'Chrome'
\* is never chrome, and 'Chrome' with 'Safari' is chrome unless one of those
\* three comes first, and never safari.
C25_BrowserFirstMatch ==
    Published =>
        LET ua      == toLowerCase(runtime.userAgent)
            browser == capabilities.platform.browser
            built   == Carries(ua, {"edge", "edg", "samsungbrowser", "opera", "opr"})
        IN  /\ browser = FirstCarried(ua, BrowserOrder)
            /\ browser \in {"edge", "samsung", "opera", "chrome", "safari",
                            "firefox", "unknown"}
            /\ (built /\ Carries(ua, {"chrome"})) => browser # "chrome"
            /\ (Carries(ua, {"chrome"}) /\ Carries(ua, {"safari"})) =>
                  /\ browser # "safari"
                  /\ ~ built => browser = "chrome"
            /\ ua = "" => browser = "unknown"

\* A signature with 'Chrome', 'Safari' and a trailing 'Edge' token was
\* published as edge.
C25_Witness ==
    /\ Published
    /\ runtime.userAgent = LegacyEdgeUA
    /\ Carries(toLowerCase(runtime.userAgent), {"chrome"})
    /\ Carries(toLowerCase(runtime.userAgent), {"safari"})
    /\ capabilities.platform.browser = "edge"

\* The fields of the snapshot other than isLoading.
SnapshotFields(c) ==
    <<c.deviceCategory, c.knownDevice, c.platform, c.camera, c.xr, c.lastUpdated>>

\* C27: starting a pass leaves the published snapshot as it is, and while a
\* pass started by refresh() is in flight every step in which no pass
\* publishes leaves the snapshot's fields, the recommendation and the device
\* description unchanged.
C27_SnapshotKeptWhileRefreshing ==
    [][ /\ started' # started =>
              /\ SnapshotFields(capabilities') = SnapshotFields(capabilities)
              /\ publishedBy' = publishedBy
        /\ ((\E p \in PassIds : InFlight(p) /\ passes[p].fromReady)
              /\ ~ \E q \in PassIds : /\ passes[q].status = "running"
                                      /\ passes'[q].status = "published") =>
              /\ SnapshotFields(capabilities') = SnapshotFields(capabilities)
              /\ Published /\ publishedBy' = publishedBy
              /\ getRecommendations(capabilities') = getRecommendations(capabilities)
              /\ getDeviceDescription(capabilities') = getDeviceDescription(capabilities)
      ]_vars

\* A pass started by refresh() has both probes back and has not published;
\* the snapshot read is still the one of the pass that published before.
C27_Witness ==
    \E p \in PassIds :
        /\ InFlight(p) /\ passes[p].fromReady
        /\ BothProbesReturned(p)
        /\ Published /\ publishedBy # p
        /\ capabilities.deviceCategory # "unknown"
        /\ capabilities.lastUpdated # 0

\* C28: a published snapshot never has deviceCategory 'unknown'; its
\* category is 'ar-glasses' or 'vr-headset' exactly when a known device was
\* matched; 'unknown' and the description 'Unknown Device' are seen only in
\* the initial loading state.
C28_CategoryKnownAfterPublish ==
    /\ Published =>
          /\ capabilities.deviceCategory \in
                {"ar-glasses", "vr-headset", "tablet", "mobile", "desktop"}
          /\ (capabilities.deviceCategory \in {"ar-glasses", "vr-headset"})
                <=> (capabilities.knownDevice # "unknown")
          /\ getDeviceDescription(capabilities) # "Unknown Device"
    /\ (\/ capabilities.deviceCategory = "unknown"
        \/ getDeviceDescription(capabilities) = "Unknown Device") =>
          /\ ~ Published
          /\ capabilities.isLoading
          /\ capabilities.lastUpdated = 0

\* A snapshot for the empty signature was published: no device and no
\* operating system matched, and the category is desktop.
C28_Witness ==
    /\ Published
    /\ runtime.userAgent = ""
    /\ capabilities.knownDevice = "unknown"
    /\ capabilities.platform.os = "unknown"
    /\ capabilities.deviceCategory = "desktop"

\* C29: in a published snapshot xr.supportsHandTracking is the catalog's
\* hasHandTracking of the matched device, whatever the XR probe found and
\* also without the XR API, and false for an unknown device; the
\* recommendation's canUseHandTracking always equals it.
C29_HandTrackingFromCatalog ==
    /\ Published =>
          capabilities.xr.supportsHandTracking =
             CASE capabilities.knownDevice \in {"meta-quest-3", "meta-quest-3s",
                      "meta-quest-pro", "meta-quest-2", "apple-vision-pro", "pico-4"}
                    -> TRUE
               [] OTHER -> FALSE
    /\ getRecommendations(capabilities).canUseHandTracking
          = capabilities.xr.supportsHandTracking

\* A headset with hand tracking in the catalog and no XR API published a
\* snapshot that reports hand tracking.
C29_Witness ==
    /\ Published
    /\ ~ runtime.xr
    /\ capabilities.knownDevice = "meta-quest-2"
    /\ ~ capabilities.xr.supportsWebXR
    /\ capabilities.xr.supportsHandTracking
    /\ getRecommendations(capabilities).canUseHandTracking

\* C30: a call of requestCameraPermission goes on to getUserMedia exactly
\* when the snapshot it reads says getUserMedia is supported; a call made
\* before the first snapshot is published returns false at once, without
\* calling getUserMedia and without starting a pass, whatever the runtime
\* supports.
C30_SupportReadFromSnapshot ==
    [][\A r \in RequestIds :
          (requests[r].pc = "idle" /\ requests'[r].pc # "idle") =>
              /\ requests'[r].asked = capabilities.camera.supportsGetUserMedia
              /\ (publishedBy = 0) =>
                    /\ requests'[r].pc = "returned"
                    /\ requests'[r].result = "false"
                    /\ ~ requests'[r].asked
                    /\ UNCHANGED <<capabilities, passes, started, publishedBy>>
      ]_vars

\* On a runtime with getUserMedia a call made in the initial loading state
\* has returned false without calling getUserMedia.
C30_Witness ==
    \E r \in RequestIds :
        /\ runtime.mediaDevices /\ runtime.getUserMedia
        /\ capabilities.isLoading /\ publishedBy = 0
        /\ requests[r].pc = "returned"
        /\ requests[r].result = "false"
        /\ ~ requests[r].asked
        /\ requests[r].pass = 0

\* C26: platform detection is a function of the signature alone: all calls
\* made with one signature, whatever calls came between them, gave the same
\* os, browser, isMobile and isTablet, and no pattern test left state behind.
C26_PlatformDetectionPure ==
    /\ \A a \in detected : \A b \in detected :
          a.userAgent = b.userAgent => a = b
    /\ \A a \in detected :
          LET platform == getPlatformInfo([BareNavigator EXCEPT !.userAgent = a.userAgent])
          IN  /\ a.os = platform.os
              /\ a.browser = platform.browser
              /\ a.isMobile = platform.isMobile
              /\ a.isTablet = platform.isTablet
    /\ \A k \in PatternKeys : lastIndex[k] = 0

\* Detection ran on a phone signature, on a desktop one and on the empty
\* one, each with its own result.
C26_Witness ==
    /\ \E a \in detected :
          a.userAgent = "iPhone Mobile Safari" /\ a.isMobile /\ a.browser = "safari"
    /\ \E a \in detected :
          a.userAgent = "Windows Chrome Safari Edg" /\ ~ a.isMobile /\ a.browser = "edge"
    /\ \E a \in detected : a.userAgent = "" /\ a.browser = "unknown"

====
